---- MODULE Spec2Model ----
(***************************************************************************)
(* The scheduling and aggregation engine of the agentic evaluation         *)
(* backend: the enqueue facade (enqueue.js), the master orchestrator       *)
(* (masterOrchestrator.js: dispatch loop, collector, finaliser, timeout    *)
(* sweeper), the broker lists and hashes it uses (redisClient.js) and the  *)
(* response / evaluation / batch collections (dbClient.js).                *)
(*                                                                         *)
(* A handler is cut into steps at its awaits: one action runs from one     *)
(* await to the next, so that the other loops interleave where the event   *)
(* loop lets them.  Time is counted in sweep intervals (60 s): the only    *)
(* reader of the clock is the sweeper, which fires once per interval, and  *)
(* the age of an in-flight task is the number of sweeps since its start.   *)
(***************************************************************************)
EXTENDS Integers, Sequences, FiniteSets, TLC

\* ---------------------------------------------------------------- bounds
\* Records of the uploaded batch.
NumRecords == 2
\* this.maxConcurrentTasks, instantiated at the boundary value of the cap.
MaxConcurrentTasks == 1
\* Broker / store errors injected into one run.
MaxFaults == 1
\* Results waiting in the results list.
MaxResultsQueue == 1
\* Direct calls of requeueFailedResponse in one run.
MaxRequeueCalls == 4
\* Results the broker delivers a second time in one run.
MaxDuplicates == 6
\* Loop activations of one kind alive at a time.
MaxLoops == 3

\* ------------------------------------------------------------- constants
MAX_RETRIES == 3
\* The period of the timeout monitor (60000 ms) is the unit of time.
SweepInterval == 1
\* this.taskTimeout (300000 ms) in sweep intervals.
TaskTimeout == 5

DIMENSIONS ==
  <<"instruction", "hallucination", "assumption", "coherence", "accuracy">>

DimSet == {DIMENSIONS[i] : i \in 1..Len(DIMENSIONS)}

\* Weights in hundredths.
DEFAULT_WEIGHTS ==
  [instruction |-> 20, hallucination |-> 25, assumption |-> 20,
   coherence |-> 15, accuracy |-> 20]

TaskIds == 1..NumRecords

VARIABLES
  status,        \* responses collection: record id -> status
  evals,         \* evaluations collection, in insertion order
  batchStatus,   \* batches collection: status of the batch
  batchProgress, \* batches collection: progress document of the batch
  mainQueue,     \* list main_evaluation_tasks
  taskQueue,     \* list evaluation_tasks (legacy)
  dimQueue,      \* lists dimension_queue:<dimension>
  resultsQueue,  \* list dimension_results
  partial,       \* hashes task:<id>:results
  activeTasks,   \* this.activeTasks, in insertion order
  runningTasks,  \* this.runningTasks
  dispatching,   \* processMainTask calls in progress
  collector,     \* position of the collector loop
  sweeper,       \* position of checkTaskTimeouts and its timeoutTasks
  missed,        \* history: records whose task reached its deadline at the
                 \* last sweep with fewer than five partial results
  enq,           \* position of enqueueBatch
  uuid,          \* uuids handed out so far
  faults,        \* errors injected so far
  control,       \* position of a pause / resume / cancel request
  isRunning,     \* this.isRunning
  mainLoop,      \* position of processMainQueue: "top" of the loop, or in
                 \* the "poll" of getMainTask
  expiry,        \* task ids whose partial-result key has a time to live
  worker,        \* one DimensionWorker: its fields, the position of its
                 \* processLoop and of stop(), its processTask calls, and the
                 \* task ids it has popped and finished
  loops          \* the activations of processMainQueue ("dispatch") and of
                 \* collectResults ("collect") that have not returned: how
                 \* many are inside the poll of their iteration and how many
                 \* in the awaits that follow it

vars ==
  <<status, evals, batchStatus, batchProgress, mainQueue, taskQueue, dimQueue,
    resultsQueue, partial, activeTasks, runningTasks, dispatching, collector,
    sweeper, missed, enq, uuid, faults, control, isRunning, mainLoop,
    expiry, worker, loops>>

\* ------------------------------------------------------------ helpers
EmptyHash == [d \in {} |-> 0]

Count(S) == Cardinality(S)

\* score || 0.0 : a missing score (<<>>) and 0 both give 0.
OrZero(s) == IF s = <<>> THEN 0 ELSE s[1]

\* ---------------------------------------------------------- dbClient.js
updateResponseStatus(st, r, s) == [st EXCEPT ![r] = s]

HasTaskEvaluation(ev, t) == \E i \in 1..Len(ev) : ev[i].task_id = t

\* The unique index on evaluations.response_id.
HasEvaluation(ev, r) == \E i \in 1..Len(ev) : ev[i].response_id = r

InsertSucceedsNoIndex(ev, doc) == TRUE

\* insertOne succeeds unless the unique index rejects the document.
InsertSucceeds(ev, doc) == ~HasEvaluation(ev, doc.response_id)

insertEvaluationLost(ev, doc) == ev

insertEvaluation(ev, doc) == Append(ev, doc)

StatusesPresent(st) == {st[r] : r \in DOMAIN st}

getBatchProgressPresetTotal(st) ==
  [k \in {"pending", "processing", "completed", "failed", "total"}
         \cup StatusesPresent(st) |->
     IF k = "total"
       THEN Count({r \in DOMAIN st :
                     st[r] \in {"pending", "processing", "completed", "failed"}})
       ELSE Count({r \in DOMAIN st : st[r] = k})]

\* getBatchProgress: one count per status present, summed into total.
getBatchProgress(st) ==
  [k \in {"pending", "processing", "completed", "failed", "total"}
         \cup StatusesPresent(st) |->
     IF k = "total" THEN Count(DOMAIN st)
     ELSE Count({r \in DOMAIN st : st[r] = k})]

\* A counter of a progress document, 0 when the document lacks it.
Field(p, k) == IF k \in DOMAIN p THEN p[k] ELSE 0

\* ------------------------------------------------------- redisClient.js
addMainTaskTwice(q, taskData) ==
  Append(Append(q, [taskData EXCEPT !.retry_count = 0]),
         [taskData EXCEPT !.retry_count = 0])

addMainTask(q, taskData) ==
  Append(q, [taskData EXCEPT !.retry_count = 0])

\* requeueMainTask: <<pushed, queue>>.
requeueMainTask(q, taskData) ==
  LET updatedTask == [taskData EXCEPT !.retry_count = taskData.retry_count + 1]
  IN IF updatedTask.retry_count <= MAX_RETRIES
       THEN <<TRUE, addMainTask(q, updatedTask)>>
       ELSE <<FALSE, q>>

\* requeueTask pushes onto the legacy list: <<pushed, queue>>.
requeueTask(q, taskData) ==
  LET updatedTask == [taskData EXCEPT !.retry_count = taskData.retry_count + 1]
  IN IF updatedTask.retry_count <= MAX_RETRIES
       THEN <<TRUE, Append(q, updatedTask)>>
       ELSE <<FALSE, q>>

HSet(h, d, v) == [x \in DOMAIN h \cup {d} |-> IF x = d THEN v ELSE h[x]]

\* setPartialResult: hSet, then hLen.
setPartialResult(p, t, d, v) == [p EXCEPT ![t] = HSet(p[t], d, v)]

deletePartialResults(p, t) == [p EXCEPT ![t] = EmptyHash]

\* --------------------------------------------------- this.activeTasks
ActiveIds(a) == {a[i].taskId : i \in 1..Len(a)}

ActiveDeleteKeeps(a, t) == a

ActiveDelete(a, t) ==
  LET Keep(e) == e.taskId # t IN SelectSeq(a, Keep)

ActiveSet(a, t, mainTask) ==
  IF t \in ActiveIds(a)
    THEN [i \in 1..Len(a) |->
            IF a[i].taskId = t
              THEN [taskId |-> t, mainTask |-> mainTask, age |-> 0]
              ELSE a[i]]
    ELSE Append(a, [taskId |-> t, mainTask |-> mainTask, age |-> 0])

ActiveGet(a, t) ==
  LET Is(e) == e.taskId = t IN SelectSeq(a, Is)

\* ---------------------------------------------------------------- Init
Idle == [pc |-> "idle", task_id |-> 0, info |-> <<>>, doc |-> <<>>]

SweeperIdle == [pc |-> "idle", list |-> <<>>]

\* The loops after the orchestrator's first start(): one activation of each,
\* inside its first poll (the loop test and the call of the poll run without
\* a pause when the loop is started).
LoopsStarted ==
  [k \in {"dispatch", "collect"} |-> [poll |-> 1, rest |-> 0]]

\* The dimension worker after start(): isRunning set, processLoop at the top
\* of its loop, nothing in progress, stop() not called.
WorkerStarted ==
  [isRunning |-> TRUE, loop |-> "top", processingCount |-> 0,
   processing |-> {}, stop |-> "none", popped |-> {}, finished |-> {}]

\* The rest of the state once the upload has stored its records.
InitRest ==
  /\ evals = <<>>
  /\ batchStatus = "uploaded"
  /\ batchProgress = EmptyHash
  /\ mainQueue = <<>>
  /\ taskQueue = <<>>
  /\ dimQueue = [d \in DimSet |-> <<>>]
  /\ resultsQueue = <<>>
  /\ partial = [t \in TaskIds |-> EmptyHash]
  /\ activeTasks = <<>>
  /\ runningTasks = 0
  /\ dispatching = {}
  /\ collector = Idle
  /\ sweeper = SweeperIdle
  /\ missed = {}
  /\ enq = [pc |-> "push", i |-> 1]
  /\ uuid = 0
  /\ faults = 0
  /\ control = "idle"
  /\ isRunning = TRUE
  /\ mainLoop = "top"
  /\ expiry = {}
  /\ worker = WorkerStarted
  /\ loops = LoopsStarted

\* An upload of 1..NumRecords records: insertManyResponses has stored them as
\* pending and enqueueBatch is about to start.
Init ==
  /\ \E n \in 1..NumRecords : status = [r \in 1..n |-> "pending"]
  /\ InitRest

\* An upload of a single record.
InitSingle ==
  /\ status = [r \in 1..1 |-> "pending"]
  /\ InitRest

\* ------------------------------------------------- enqueue.js: enqueueBatch
\* One pass of the loop up to the push: addMainTask with a fresh uuid.
EnqueuePush ==
  /\ enq.pc = "push"
  /\ uuid' = uuid + 1
  /\ mainQueue' = addMainTask(mainQueue,
        [task_id |-> uuid + 1, response_id |-> enq.i, retry_count |-> 0])
  /\ enq' = [enq EXCEPT !.pc = "mark"]
  /\ UNCHANGED <<status, evals, batchStatus, batchProgress, taskQueue,
                 dimQueue, resultsQueue, partial, activeTasks, runningTasks,
                 dispatching, collector, sweeper, missed, faults, control,
                 isRunning, mainLoop, expiry, worker, loops>>

\* The rest of the pass: the record is marked queued.
EnqueueMark ==
  /\ enq.pc = "mark"
  /\ status' = updateResponseStatus(status, enq.i, "queued")
  /\ enq' = IF enq.i = Count(DOMAIN status)
              THEN [enq EXCEPT !.pc = "batch"]
              ELSE [pc |-> "push", i |-> enq.i + 1]
  /\ UNCHANGED <<evals, batchStatus, batchProgress, mainQueue, taskQueue,
                 dimQueue, resultsQueue, partial, activeTasks, runningTasks,
                 dispatching, collector, sweeper, missed, uuid, faults,
                 control, isRunning, mainLoop, expiry, worker, loops>>

\* After the loop: updateBatchStatus(batchId, 'processing', counters).
EnqueueFinish ==
  /\ enq.pc = "batch"
  /\ batchStatus' = "processing"
  /\ batchProgress' =
       [k \in {"total", "queued", "processing", "completed", "failed"} |->
          IF k \in {"total", "queued"} THEN Count(DOMAIN status) ELSE 0]
  /\ enq' = [enq EXCEPT !.pc = "done"]
  /\ UNCHANGED <<status, evals, mainQueue, taskQueue, dimQueue, resultsQueue,
                 partial, activeTasks, runningTasks, dispatching, collector,
                 sweeper, missed, uuid, faults, control, isRunning, mainLoop,
                 expiry, worker, loops>>

\* addMainTask, updateResponseStatus or updateBatchStatus throws inside
\* enqueueBatch: control passes to its catch block.  A push or a write the
\* server applied can still be reported as failed, so the call has either
\* taken effect (applied) or not.
EnqueuePushFails ==
  /\ enq.pc = "push"
  /\ faults < MaxFaults
  /\ faults' = faults + 1
  /\ \E applied \in BOOLEAN :
       IF applied
         THEN /\ uuid' = uuid + 1
              /\ mainQueue' = addMainTask(mainQueue,
                    [task_id |-> uuid + 1, response_id |-> enq.i,
                     retry_count |-> 0])
         ELSE UNCHANGED <<uuid, mainQueue>>
  /\ enq' = [enq EXCEPT !.pc = "catch"]
  /\ UNCHANGED <<status, evals, batchStatus, batchProgress, taskQueue,
                 dimQueue, resultsQueue, partial, activeTasks, runningTasks,
                 dispatching, collector, sweeper, missed, control, isRunning,
                 mainLoop, expiry, worker, loops>>

EnqueueMarkFails ==
  /\ enq.pc = "mark"
  /\ faults < MaxFaults
  /\ faults' = faults + 1
  /\ \E applied \in BOOLEAN :
       status' = IF applied
                   THEN updateResponseStatus(status, enq.i, "queued")
                   ELSE status
  /\ enq' = [enq EXCEPT !.pc = "catch"]
  /\ UNCHANGED <<evals, batchStatus, batchProgress, mainQueue, taskQueue,
                 dimQueue, resultsQueue, partial, activeTasks, runningTasks,
                 dispatching, collector, sweeper, missed, uuid, control,
                 isRunning, mainLoop, expiry, worker, loops>>

EnqueueFinishFails ==
  /\ enq.pc = "batch"
  /\ faults < MaxFaults
  /\ faults' = faults + 1
  /\ enq' = [enq EXCEPT !.pc = "catch"]
  /\ UNCHANGED <<status, evals, batchStatus, batchProgress, mainQueue,
                 taskQueue, dimQueue, resultsQueue, partial, activeTasks,
                 runningTasks, dispatching, collector, sweeper, missed, uuid,
                 control, isRunning, mainLoop, expiry, worker, loops>>

\* The catch block of enqueueBatch: the batch is marked failed and the error
\* thrown on to the caller.
EnqueueCatch ==
  /\ enq.pc = "catch"
  /\ batchStatus' = "failed"
  /\ enq' = [enq EXCEPT !.pc = "thrown"]
  /\ UNCHANGED <<status, evals, batchProgress, mainQueue, taskQueue, dimQueue,
                 resultsQueue, partial, activeTasks, runningTasks,
                 dispatching, collector, sweeper, missed, uuid, faults,
                 control, isRunning, mainLoop, expiry, worker, loops>>

\* ------------------------------- enqueue.js: requeueFailedResponse
\* The task is rebuilt from the stored record (it carries no task_id and no
\* retry_count) and handed to requeueTask.
requeueFailedResponse(r) ==
  LET task == [task_id |-> 0, response_id |-> r, retry_count |-> 0]
      res == requeueTask(taskQueue, task)
  IN /\ taskQueue' = res[2]
     /\ status' = updateResponseStatus(status, r,
                     IF res[1] THEN "queued" ELSE "failed")
     /\ UNCHANGED <<evals, batchStatus, batchProgress, mainQueue, dimQueue,
                    resultsQueue, partial, activeTasks, runningTasks,
                    dispatching, collector, sweeper, missed, enq, uuid,
                    faults, control, isRunning, mainLoop, expiry, worker,
                    loops>>

\* retryFailedTasks: requeueFailedResponse for a failed record of the batch.
RetryFailedTasks ==
  \E r \in DOMAIN status :
    /\ status[r] = "failed"
    /\ requeueFailedResponse(r)

\* requeueFailedResponse called for any record of the batch.
RequeueFailed ==
  \E r \in DOMAIN status :
    /\ Len(taskQueue) < MaxRequeueCalls
    /\ requeueFailedResponse(r)

\* ------------------------------------- the pause / resume / cancel routes
\* POST /batch/:batchId/pause: the batch is read and must be processing ...
PauseCheck ==
  /\ control = "idle"
  /\ batchStatus = "processing"
  /\ control' = "pause"
  /\ UNCHANGED <<status, evals, batchStatus, batchProgress, mainQueue,
                 taskQueue, dimQueue, resultsQueue, partial, activeTasks,
                 runningTasks, dispatching, collector, sweeper, missed, enq,
                 uuid, faults, isRunning, mainLoop, expiry, worker, loops>>

\* ... then pauseProcessing writes 'paused'.
PauseWrite ==
  /\ control = "pause"
  /\ batchStatus' = "paused"
  /\ control' = "idle"
  /\ UNCHANGED <<status, evals, batchProgress, mainQueue, taskQueue, dimQueue,
                 resultsQueue, partial, activeTasks, runningTasks,
                 dispatching, collector, sweeper, missed, enq, uuid, faults,
                 isRunning, mainLoop, expiry, worker, loops>>

\* POST /batch/:batchId/resume: the batch is read and must be paused ...
ResumeCheck ==
  /\ control = "idle"
  /\ batchStatus = "paused"
  /\ control' = "resume"
  /\ UNCHANGED <<status, evals, batchStatus, batchProgress, mainQueue,
                 taskQueue, dimQueue, resultsQueue, partial, activeTasks,
                 runningTasks, dispatching, collector, sweeper, missed, enq,
                 uuid, faults, isRunning, mainLoop, expiry, worker, loops>>

\* ... then resumeProcessing writes 'processing'.
ResumeWrite ==
  /\ control = "resume"
  /\ batchStatus' = "processing"
  /\ control' = "idle"
  /\ UNCHANGED <<status, evals, batchProgress, mainQueue, taskQueue, dimQueue,
                 resultsQueue, partial, activeTasks, runningTasks,
                 dispatching, collector, sweeper, missed, enq, uuid, faults,
                 isRunning, mainLoop, expiry, worker, loops>>

\* DELETE /batch/:batchId: the batch becomes cancelled ...
CancelBatch ==
  /\ control = "idle"
  /\ batchStatus # "cancelled"
  /\ batchStatus' = "cancelled"
  /\ control' = "records"
  /\ UNCHANGED <<status, evals, batchProgress, mainQueue, taskQueue, dimQueue,
                 resultsQueue, partial, activeTasks, runningTasks,
                 dispatching, collector, sweeper, missed, enq, uuid, faults,
                 isRunning, mainLoop, expiry, worker, loops>>

\* ... then its pending and queued records become cancelled.
CancelRecords ==
  /\ control = "records"
  /\ status' = [r \in DOMAIN status |->
                  IF status[r] \in {"pending", "queued"}
                    THEN "cancelled" ELSE status[r]]
  /\ control' = "idle"
  /\ UNCHANGED <<evals, batchStatus, batchProgress, mainQueue, taskQueue,
                 dimQueue, resultsQueue, partial, activeTasks, runningTasks,
                 dispatching, collector, sweeper, missed, enq, uuid, faults,
                 isRunning, mainLoop, expiry, worker, loops>>

\* ------------------------------------ masterOrchestrator.js: dispatch
\* processMainQueue: one iteration that finds a task; processMainTask is
\* started (not awaited) and has incremented runningTasks.
MainPop ==
  /\ isRunning
  /\ runningTasks < MaxConcurrentTasks
  /\ mainQueue # <<>>
  /\ mainQueue' = Tail(mainQueue)
  /\ runningTasks' = runningTasks + 1
  /\ dispatching' = dispatching \cup {[task |-> Head(mainQueue), pc |-> "mark"]}
  /\ UNCHANGED <<status, evals, batchStatus, batchProgress, taskQueue,
                 dimQueue, resultsQueue, partial, activeTasks, collector,
                 sweeper, missed, enq, uuid, faults, control, isRunning,
                 mainLoop, expiry, worker, loops>>

\* stop(): the flag the loops test is cleared.
Stop ==
  /\ isRunning
  /\ isRunning' = FALSE
  /\ UNCHANGED <<status, evals, batchStatus, batchProgress, mainQueue,
                 taskQueue, dimQueue, resultsQueue, partial, activeTasks,
                 runningTasks, dispatching, collector, sweeper, missed, enq,
                 uuid, faults, control, mainLoop, expiry, worker, loops>>

Alive(l, k) == l[k].poll + l[k].rest

\* start(): nothing when the orchestrator is running; otherwise the flag is
\* set and processMainQueue and collectResults are called without await, and
\* each runs up to its first poll.
Start ==
  /\ Alive(loops, "dispatch") < MaxLoops
  /\ Alive(loops, "collect") < MaxLoops
  /\ IF isRunning
       THEN UNCHANGED <<isRunning, loops>>
       ELSE /\ isRunning' = TRUE
            /\ loops' = [k \in DOMAIN loops |->
                           [loops[k] EXCEPT !.poll = @ + 1]]
  /\ UNCHANGED <<status, evals, batchStatus, batchProgress, mainQueue,
                 taskQueue, dimQueue, resultsQueue, partial, activeTasks,
                 runningTasks, dispatching, collector, sweeper, missed, enq,
                 uuid, faults, control, mainLoop, expiry, worker>>

\* The poll of one activation returns and the iteration goes on with further
\* awaits: setWorkerStatus and sleep after an empty poll of the main queue,
\* processDimensionResult after a result.
LoopPollReturns(k) ==
  /\ loops[k].poll > 0
  /\ loops' = [loops EXCEPT
                 ![k] = [poll |-> @.poll - 1, rest |-> @.rest + 1]]
  /\ UNCHANGED <<status, evals, batchStatus, batchProgress, mainQueue,
                 taskQueue, dimQueue, resultsQueue, partial, activeTasks,
                 runningTasks, dispatching, collector, sweeper, missed, enq,
                 uuid, faults, control, isRunning, mainLoop, expiry, worker>>

\* The iteration of one activation ends and while (this.isRunning) is
\* tested: the next poll begins, or the loop ends and the activation returns.
LoopTest(k) ==
  /\ loops[k].rest > 0
  /\ loops' = [loops EXCEPT
                 ![k] = IF isRunning
                          THEN [poll |-> @.poll + 1, rest |-> @.rest - 1]
                          ELSE [@ EXCEPT !.rest = @ - 1]]
  /\ UNCHANGED <<status, evals, batchStatus, batchProgress, mainQueue,
                 taskQueue, dimQueue, resultsQueue, partial, activeTasks,
                 runningTasks, dispatching, collector, sweeper, missed, enq,
                 uuid, faults, control, isRunning, mainLoop, expiry, worker>>

\* The poll returns and nothing else is awaited in the iteration (a main
\* task was found, no result was found): the test follows at once.
LoopPollTest(k) ==
  /\ loops[k].poll > 0
  /\ loops' = [loops EXCEPT
                 ![k] = IF isRunning THEN @ ELSE [@ EXCEPT !.poll = @ - 1]]
  /\ UNCHANGED <<status, evals, batchStatus, batchProgress, mainQueue,
                 taskQueue, dimQueue, resultsQueue, partial, activeTasks,
                 runningTasks, dispatching, collector, sweeper, missed, enq,
                 uuid, faults, control, isRunning, mainLoop, expiry, worker>>

\* processMainQueue, loop test and cap test passed: getMainTask(5) is called
\* and polls the list.
PollStart ==
  /\ isRunning
  /\ mainLoop = "top"
  /\ runningTasks < MaxConcurrentTasks
  /\ mainLoop' = "poll"
  /\ UNCHANGED <<status, evals, batchStatus, batchProgress, mainQueue,
                 taskQueue, dimQueue, resultsQueue, partial, activeTasks,
                 runningTasks, dispatching, collector, sweeper, missed, enq,
                 uuid, faults, control, isRunning, expiry, worker, loops>>

\* An lPop of the poll finds a task: processMainTask is started with it.
PollPop ==
  /\ mainLoop = "poll"
  /\ mainQueue # <<>>
  /\ mainQueue' = Tail(mainQueue)
  /\ runningTasks' = runningTasks + 1
  /\ dispatching' = dispatching \cup {[task |-> Head(mainQueue), pc |-> "mark"]}
  /\ mainLoop' = "top"
  /\ UNCHANGED <<status, evals, batchStatus, batchProgress, taskQueue,
                 dimQueue, resultsQueue, partial, activeTasks, collector,
                 sweeper, missed, enq, uuid, faults, control, isRunning,
                 expiry, worker, loops>>

\* The poll times out on an empty list: back to the loop test.
PollEmpty ==
  /\ mainLoop = "poll"
  /\ mainQueue = <<>>
  /\ mainLoop' = "top"
  /\ UNCHANGED <<status, evals, batchStatus, batchProgress, mainQueue,
                 taskQueue, dimQueue, resultsQueue, partial, activeTasks,
                 runningTasks, dispatching, collector, sweeper, missed, enq,
                 uuid, faults, control, isRunning, expiry, worker, loops>>

\* processMainTask up to the fan-out: the record is marked processing and
\* the task registered with its start time.
DispatchMark(d) ==
  /\ d.pc = "mark"
  /\ status' = updateResponseStatus(status, d.task.response_id, "processing")
  /\ activeTasks' = ActiveSet(activeTasks, d.task.task_id, d.task)
  /\ dispatching' = (dispatching \ {d}) \cup {[d EXCEPT !.pc = "fan"]}
  /\ UNCHANGED <<evals, batchStatus, batchProgress, mainQueue, taskQueue,
                 dimQueue, resultsQueue, partial, runningTasks, collector,
                 sweeper, missed, enq, uuid, faults, control, isRunning,
                 mainLoop, expiry, worker, loops>>

PushSubtasksOneList(q, t, k) ==
  [x \in DimSet |->
     IF k > 0 /\ x = DIMENSIONS[1]
       THEN q[x] \o [i \in 1..k |-> t] ELSE q[x]]

\* The fan-out: one subtask per dimension, in the order of DIMENSIONS.
PushSubtasks(q, t, k) ==
  [x \in DimSet |->
     IF \E i \in 1..k : DIMENSIONS[i] = x THEN Append(q[x], t) ELSE q[x]]

DispatchFanOutHoldsSlot(d) ==
  /\ d.pc = "fan"
  /\ dimQueue' = PushSubtasks(dimQueue, d.task.task_id, Len(DIMENSIONS))
  /\ dispatching' = dispatching \ {d}
  /\ UNCHANGED <<status, evals, batchStatus, batchProgress, mainQueue,
                 taskQueue, resultsQueue, partial, activeTasks, runningTasks,
                 collector, sweeper, missed, enq, uuid, faults, control,
                 isRunning, mainLoop, expiry, worker, loops>>

\* The fan-out completes and the finally block runs.
DispatchFanOut(d) ==
  /\ d.pc = "fan"
  /\ dimQueue' = PushSubtasks(dimQueue, d.task.task_id, Len(DIMENSIONS))
  /\ runningTasks' = runningTasks - 1
  /\ dispatching' = dispatching \ {d}
  /\ UNCHANGED <<status, evals, batchStatus, batchProgress, mainQueue,
                 taskQueue, resultsQueue, partial, activeTasks, collector,
                 sweeper, missed, enq, uuid, faults, control, isRunning,
                 mainLoop, expiry, worker, loops>>

\* An await of processMainTask throws when k subtasks have been appended.  A
\* push the broker applied can still be reported as failed (the connection
\* drops before the reply), so k ranges up to all five.
DispatchFails(d, k) ==
  /\ faults < MaxFaults
  /\ faults' = faults + 1
  /\ dimQueue' = PushSubtasks(dimQueue, d.task.task_id, k)
  /\ dispatching' = (dispatching \ {d}) \cup {[d EXCEPT !.pc = "catch"]}
  /\ UNCHANGED <<status, evals, batchStatus, batchProgress, mainQueue,
                 taskQueue, resultsQueue, partial, activeTasks, runningTasks,
                 collector, sweeper, missed, enq, uuid, control, isRunning,
                 mainLoop, expiry, worker, loops>>

\* setWorkerStatus or updateResponseStatus throws.
DispatchMarkFails(d) ==
  /\ d.pc = "mark"
  /\ DispatchFails(d, 0)

\* addDimensionTask throws.
DispatchFanOutFails(d) ==
  /\ d.pc = "fan"
  /\ \E k \in 0..Len(DIMENSIONS) : DispatchFails(d, k)

\* handleTaskFailure: <<queue, statuses>> after the requeue attempt.
handleTaskFailure(q, st, mainTask) ==
  LET res == requeueMainTask(q, mainTask)
  IN IF res[1]
       THEN <<res[2], st>>
       ELSE <<q, updateResponseStatus(st, mainTask.response_id, "failed")>>

DispatchCatchHoldsSlot(d) ==
  LET h == handleTaskFailure(mainQueue, status, d.task)
  IN /\ d.pc = "catch"
     /\ mainQueue' = h[1]
     /\ status' = h[2]
     /\ activeTasks' = ActiveDelete(activeTasks, d.task.task_id)
     /\ dispatching' = dispatching \ {d}
     /\ UNCHANGED <<evals, batchStatus, batchProgress, taskQueue, dimQueue,
                    resultsQueue, partial, runningTasks, collector, sweeper,
                    missed, enq, uuid, faults, control, isRunning, mainLoop,
                    expiry, worker, loops>>

\* The catch block of processMainTask, then its finally block.
DispatchCatch(d) ==
  LET h == handleTaskFailure(mainQueue, status, d.task)
  IN /\ d.pc = "catch"
     /\ mainQueue' = h[1]
     /\ status' = h[2]
     /\ activeTasks' = ActiveDelete(activeTasks, d.task.task_id)
     /\ runningTasks' = runningTasks - 1
     /\ dispatching' = dispatching \ {d}
     /\ UNCHANGED <<evals, batchStatus, batchProgress, taskQueue, dimQueue,
                    resultsQueue, partial, collector, sweeper, missed, enq,
                    uuid, faults, control, isRunning, mainLoop, expiry,
                    worker, loops>>

\* handleTaskFailure when requeueMainTask throws: control passes to the
\* catch block of handleTaskFailure.
HandleFailureRequeueFails(d) ==
  /\ d.pc = "catch"
  /\ faults' = faults + 1
  /\ dispatching' = (dispatching \ {d}) \cup {[d EXCEPT !.pc = "failed"]}
  /\ UNCHANGED <<status, evals, batchStatus, batchProgress, mainQueue,
                 taskQueue, dimQueue, resultsQueue, partial, activeTasks,
                 runningTasks, collector, sweeper, missed, enq, uuid, control,
                 isRunning, mainLoop, expiry, worker, loops>>

\* The catch block of handleTaskFailure marks the record failed;
\* processMainTask then forgets the task and runs its finally block.
HandleFailureMark(d) ==
  /\ d.pc = "failed"
  /\ status' = updateResponseStatus(status, d.task.response_id, "failed")
  /\ activeTasks' = ActiveDelete(activeTasks, d.task.task_id)
  /\ runningTasks' = runningTasks - 1
  /\ dispatching' = dispatching \ {d}
  /\ UNCHANGED <<evals, batchStatus, batchProgress, mainQueue, taskQueue,
                 dimQueue, resultsQueue, partial, collector, sweeper, missed,
                 enq, uuid, faults, control, isRunning, mainLoop, expiry,
                 worker, loops>>

\* The updateResponseStatus of that catch block throws as well: the error
\* leaves handleTaskFailure and the catch block of processMainTask (the
\* finally block still runs), and the promise of processMainTask, which
\* nothing awaits, is rejected.  The server's unhandledRejection handler
\* starts the shutdown, which stops the orchestrator before the process exits.
HandleFailureMarkFails(d) ==
  /\ d.pc = "failed"
  /\ faults' = faults + 1
  /\ runningTasks' = runningTasks - 1
  /\ dispatching' = dispatching \ {d}
  /\ isRunning' = FALSE
  /\ UNCHANGED <<status, evals, batchStatus, batchProgress, mainQueue,
                 taskQueue, dimQueue, resultsQueue, partial, activeTasks,
                 collector, sweeper, missed, enq, uuid, control, mainLoop,
                 expiry, worker, loops>>

\* ------------------------------------------- dimensionWorker.js
\* What processTask pushes: a validated score (in tenths).
WorkerOutcomes ==
  {[score |-> <<8>>, error |-> FALSE]}

\* What any producer can append to the results list: a score that is missing,
\* below 0, inside [0,1] or above 1, and with or without an error.
AnyOutcomes ==
  {[score |-> s, error |-> e] : s \in {<<>>, <<-5>>, <<5>>, <<15>>},
                                e \in BOOLEAN}

\* A subtask is taken from its dimension list and its result appended.
WorkerPush(dim, outcomes) ==
  /\ dimQueue[dim] # <<>>
  /\ Len(resultsQueue) < MaxResultsQueue
  /\ dimQueue' = [dimQueue EXCEPT ![dim] = Tail(@)]
  /\ \E o \in outcomes :
       resultsQueue' = Append(resultsQueue,
          [task_id |-> Head(dimQueue[dim]), dimension |-> dim,
           score |-> o.score, error |-> o.error])
  /\ UNCHANGED <<status, evals, batchStatus, batchProgress, mainQueue,
                 taskQueue, partial, activeTasks, runningTasks, dispatching,
                 collector, sweeper, missed, enq, uuid, faults, control,
                 isRunning, mainLoop, expiry, worker, loops>>

WorkerStep(dim) == WorkerPush(dim, WorkerOutcomes)

\* A result with an arbitrary payload arrives for the subtask.
ResultArrives(dim) == WorkerPush(dim, AnyOutcomes)

\* The results list delivers once more the result of a subtask that a worker
\* has already taken and answered: the same payload is appended again.
ResultRedelivered(dim) ==
  /\ faults < MaxDuplicates
  /\ Len(resultsQueue) < MaxResultsQueue
  /\ \E t \in 1..uuid :
       /\ t \in ActiveIds(activeTasks) \/ HasTaskEvaluation(evals, t)
       /\ \A i \in 1..Len(dimQueue[dim]) : dimQueue[dim][i] # t
       /\ \E o \in WorkerOutcomes :
            resultsQueue' = Append(resultsQueue,
               [task_id |-> t, dimension |-> dim,
                score |-> o.score, error |-> o.error])
  /\ faults' = faults + 1
  /\ UNCHANGED <<status, evals, batchStatus, batchProgress, mainQueue,
                 taskQueue, dimQueue, partial, activeTasks, runningTasks,
                 dispatching, collector, sweeper, missed, enq, uuid, control,
                 isRunning, mainLoop, expiry, worker, loops>>

\* A result whose dimension is none of the configured five is appended to the
\* results list for a dispatched task: processDimensionResult takes whatever
\* dimension the popped message names.
ResultUnknownDimension ==
  /\ faults < MaxFaults
  /\ Len(resultsQueue) < MaxResultsQueue
  /\ \E t \in ActiveIds(activeTasks) :
       resultsQueue' = Append(resultsQueue,
          [task_id |-> t, dimension |-> "unknown",
           score |-> <<8>>, error |-> FALSE])
  /\ faults' = faults + 1
  /\ UNCHANGED <<status, evals, batchStatus, batchProgress, mainQueue,
                 taskQueue, dimQueue, partial, activeTasks, runningTasks,
                 dispatching, collector, sweeper, missed, enq, uuid, control,
                 isRunning, mainLoop, expiry, worker, loops>>

\* The dimension of the worker that is followed call by call.
WorkerDimension == DIMENSIONS[1]

\* What the python script can do: exit with code 0 and a score on stdout
\* (inside [0,1], outside it, or none that parses), exit with another code,
\* or still be running when the two-minute timer fires.
PythonOutcomes ==
  {[code |-> 0, timeout |-> FALSE, score |-> s] :
     s \in {<<0>>, <<5>>, <<10>>, <<-5>>, <<15>>, <<>>}}
  \cup {[code |-> 1, timeout |-> FALSE, score |-> <<>>],
        [code |-> 0, timeout |-> TRUE, score |-> <<5>>]}

runPythonWorkerUnvalidated(out) ==
  IF ~out.timeout /\ out.code = 0 /\ out.score # <<>>
    THEN [resolved |-> TRUE, score |-> out.score]
    ELSE [resolved |-> FALSE, score |-> <<>>]

\* runPythonWorker: resolves with the score when the script exits with code
\* 0 and prints a number in [0,1] (tenths: 0..10), and rejects otherwise; the
\* timer rejects first when the script is still running after two minutes,
\* whatever it prints afterwards.
runPythonWorker(out) ==
  IF /\ ~out.timeout
     /\ out.code = 0
     /\ out.score # <<>>
     /\ out.score[1] >= 0
     /\ out.score[1] <= 10
    THEN [resolved |-> TRUE, score |-> out.score]
    ELSE [resolved |-> FALSE, score |-> <<>>]

\* processLoop: the loop test passes and getDimensionTask starts polling.
WorkerLoopPoll ==
  /\ worker.loop = "top"
  /\ worker.isRunning
  /\ worker' = [worker EXCEPT !.loop = "poll"]
  /\ UNCHANGED <<status, evals, batchStatus, batchProgress, mainQueue,
                 taskQueue, dimQueue, resultsQueue, partial, activeTasks,
                 runningTasks, dispatching, collector, sweeper, missed, enq,
                 uuid, faults, control, isRunning, mainLoop, expiry, loops>>

\* processLoop: the loop test fails and the loop ends.
WorkerLoopExit ==
  /\ worker.loop = "top"
  /\ ~worker.isRunning
  /\ worker' = [worker EXCEPT !.loop = "exited"]
  /\ UNCHANGED <<status, evals, batchStatus, batchProgress, mainQueue,
                 taskQueue, dimQueue, resultsQueue, partial, activeTasks,
                 runningTasks, dispatching, collector, sweeper, missed, enq,
                 uuid, faults, control, isRunning, mainLoop, expiry, loops>>

\* getDimensionTask returns a subtask; processTask is started (not awaited)
\* and has incremented processingCount.
WorkerLoopPop ==
  /\ worker.loop = "poll"
  /\ dimQueue[WorkerDimension] # <<>>
  /\ LET task_id == Head(dimQueue[WorkerDimension])
     IN worker' = [worker EXCEPT
                     !.loop = "top",
                     !.processingCount = @ + 1,
                     !.processing = @ \cup {[task_id |-> task_id,
                                              pc |-> "run", result |-> <<>>]},
                     !.popped = @ \cup {task_id}]
  /\ dimQueue' = [dimQueue EXCEPT ![WorkerDimension] = Tail(@)]
  /\ UNCHANGED <<status, evals, batchStatus, batchProgress, mainQueue,
                 taskQueue, resultsQueue, partial, activeTasks, runningTasks,
                 dispatching, collector, sweeper, missed, enq, uuid, faults,
                 control, isRunning, mainLoop, expiry, loops>>

\* getDimensionTask times out with nothing on the list.
WorkerLoopEmpty ==
  /\ worker.loop = "poll"
  /\ dimQueue[WorkerDimension] = <<>>
  /\ worker' = [worker EXCEPT !.loop = "top"]
  /\ UNCHANGED <<status, evals, batchStatus, batchProgress, mainQueue,
                 taskQueue, dimQueue, resultsQueue, partial, activeTasks,
                 runningTasks, dispatching, collector, sweeper, missed, enq,
                 uuid, faults, control, isRunning, mainLoop, expiry, loops>>

\* processTask up to the push: the script has run, and the result to send is
\* built in the try block (resolved) or in the catch block (rejected).
ProcessTaskRun(p) ==
  /\ p.pc = "run"
  /\ \E out \in PythonOutcomes :
       LET result == runPythonWorker(out)
           resultData ==
             IF result.resolved
               THEN [task_id |-> p.task_id, dimension |-> WorkerDimension,
                     score |-> result.score, error |-> FALSE]
               ELSE [task_id |-> p.task_id, dimension |-> WorkerDimension,
                     score |-> <<0>>, error |-> TRUE]
       IN worker' = [worker EXCEPT
                       !.processing = (@ \ {p}) \cup
                          {[p EXCEPT !.pc = "push", !.result = <<resultData>>]}]
  /\ UNCHANGED <<status, evals, batchStatus, batchProgress, mainQueue,
                 taskQueue, dimQueue, resultsQueue, partial, activeTasks,
                 runningTasks, dispatching, collector, sweeper, missed, enq,
                 uuid, faults, control, isRunning, mainLoop, expiry, loops>>

\* pushDimensionResult, then the finally block.
ProcessTaskPush(p) ==
  /\ p.pc = "push"
  /\ resultsQueue' = Append(resultsQueue, p.result[1])
  /\ worker' = [worker EXCEPT !.processing = @ \ {p},
                              !.processingCount = @ - 1,
                              !.finished = @ \cup {p.task_id}]
  /\ UNCHANGED <<status, evals, batchStatus, batchProgress, mainQueue,
                 taskQueue, dimQueue, partial, activeTasks, runningTasks,
                 dispatching, collector, sweeper, missed, enq, uuid, faults,
                 control, isRunning, mainLoop, expiry, loops>>

\* DimensionWorker.stop() is called: the flag is cleared and the wait for
\* processingCount to reach 0 begins.
WorkerStop ==
  /\ worker.stop = "none"
  /\ worker' = [worker EXCEPT !.isRunning = FALSE, !.stop = "waiting"]
  /\ UNCHANGED <<status, evals, batchStatus, batchProgress, mainQueue,
                 taskQueue, dimQueue, resultsQueue, partial, activeTasks,
                 runningTasks, dispatching, collector, sweeper, missed, enq,
                 uuid, faults, control, isRunning, mainLoop, expiry, loops>>

\* stop() finds processingCount at 0 and resolves.
WorkerStopResolve ==
  /\ worker.stop = "waiting"
  /\ worker.processingCount = 0
  /\ worker' = [worker EXCEPT !.stop = "resolved"]
  /\ UNCHANGED <<status, evals, batchStatus, batchProgress, mainQueue,
                 taskQueue, dimQueue, resultsQueue, partial, activeTasks,
                 runningTasks, dispatching, collector, sweeper, missed, enq,
                 uuid, faults, control, isRunning, mainLoop, expiry, loops>>

\* ------------------------- masterOrchestrator.js: collector and finaliser
\* The loop of finalizeTaskWithInfo over DIMENSIONS[1..i]: the sum of
\* score * weight (which = "score") and of the weights (which = "weight")
\* over the dimensions that have a result.
RECURSIVE Accumulate(_, _, _)
Accumulate(h, i, which) ==
  IF i = 0 THEN 0
  ELSE LET dim == DIMENSIONS[i]
           weight == DEFAULT_WEIGHTS[dim]
       IN Accumulate(h, i - 1, which) +
          (IF dim \in DOMAIN h
             THEN IF which = "score" THEN h[dim].score * weight ELSE weight
             ELSE 0)

\* finalScore / totalWeight as the fraction <<n, d>>, scores in tenths:
\* the final score is n / (10 * d).
FinalScore(h) ==
  LET finalScore == Accumulate(h, Len(DIMENSIONS), "score")
      totalWeight == Accumulate(h, Len(DIMENSIONS), "weight")
  IN IF totalWeight > 0 THEN <<finalScore, totalWeight>> ELSE <<0, 1>>

\* scores: the score of each dimension (in tenths), 0 for a missing result.
Scores(h) == [dim \in DimSet |-> IF dim \in DOMAIN h THEN h[dim].score ELSE 0]

\* allErrors: the dimensions whose result carries an error or is missing.
AllErrors(h) ==
  {dim \in DimSet : IF dim \in DOMAIN h THEN h[dim].error ELSE TRUE}

\* processDimensionResult: the result is popped and stored; with all five
\* fields present the finaliser is entered, with the task info if the task is
\* in activeTasks and by task id otherwise.
CollectPop ==
  /\ isRunning
  /\ collector.pc = "idle"
  /\ resultsQueue # <<>>
  /\ LET result == Head(resultsQueue)
         t == result.task_id
         stored == setPartialResult(partial, t, result.dimension,
                      [score |-> OrZero(result.score), error |-> result.error])
         completedDimensions == Count(DOMAIN stored[t])
         taskInfo == ActiveGet(activeTasks, t)
     IN /\ partial' = stored
        /\ expiry' = expiry \cup {t}
        /\ resultsQueue' = Tail(resultsQueue)
        /\ collector' =
             IF completedDimensions >= Len(DIMENSIONS)
               THEN IF taskInfo # <<>>
                      THEN [pc |-> "get", task_id |-> t,
                            info |-> <<taskInfo[1].mainTask>>, doc |-> <<>>]
                      ELSE [pc |-> "byid", task_id |-> t,
                            info |-> <<>>, doc |-> <<>>]
               ELSE Idle
  /\ UNCHANGED <<status, evals, batchStatus, batchProgress, mainQueue,
                 taskQueue, dimQueue, activeTasks, runningTasks, dispatching,
                 sweeper, missed, enq, uuid, faults, control, isRunning,
                 mainLoop, worker, loops>>

\* processDimensionResult at the grain of the store commands.  First the
\* hSet of setPartialResult: the field is written, which creates the key when
\* it is the task's first result.
CollectHSet ==
  /\ isRunning
  /\ collector.pc = "idle"
  /\ resultsQueue # <<>>
  /\ LET result == Head(resultsQueue)
     IN /\ partial' = setPartialResult(partial, result.task_id,
                         result.dimension,
                         [score |-> OrZero(result.score),
                          error |-> result.error])
        /\ collector' = [Idle EXCEPT !.pc = "expire",
                                     !.task_id = result.task_id]
  /\ resultsQueue' = Tail(resultsQueue)
  /\ UNCHANGED <<status, evals, batchStatus, batchProgress, mainQueue,
                 taskQueue, dimQueue, activeTasks, runningTasks, dispatching,
                 sweeper, missed, enq, uuid, faults, control, isRunning,
                 mainLoop, expiry, worker, loops>>

\* ... then expire(key, 3600) and hLen, and the branch on the count.
CollectExpire ==
  /\ collector.pc = "expire"
  /\ expiry' = expiry \cup {collector.task_id}
  /\ LET t == collector.task_id
         completedDimensions == Count(DOMAIN partial[t])
         taskInfo == ActiveGet(activeTasks, t)
     IN collector' =
          IF completedDimensions >= Len(DIMENSIONS)
            THEN IF taskInfo # <<>>
                   THEN [pc |-> "get", task_id |-> t,
                         info |-> <<taskInfo[1].mainTask>>, doc |-> <<>>]
                   ELSE [pc |-> "byid", task_id |-> t,
                         info |-> <<>>, doc |-> <<>>]
            ELSE Idle
  /\ UNCHANGED <<status, evals, batchStatus, batchProgress, mainQueue,
                 taskQueue, dimQueue, resultsQueue, partial, activeTasks,
                 runningTasks, dispatching, sweeper, missed, enq, uuid,
                 faults, control, isRunning, mainLoop, worker, loops>>

\* expire throws: the catch block of processDimensionResult logs the error and
\* the loop goes on to the next result.
CollectExpireFails ==
  /\ collector.pc = "expire"
  /\ faults < MaxFaults
  /\ faults' = faults + 1
  /\ collector' = Idle
  /\ UNCHANGED <<status, evals, batchStatus, batchProgress, mainQueue,
                 taskQueue, dimQueue, resultsQueue, partial, activeTasks,
                 runningTasks, dispatching, sweeper, missed, enq, uuid,
                 control, isRunning, mainLoop, expiry, worker, loops>>

\* finalizeTaskById: gives up when the hash is gone.
CollectById ==
  /\ collector.pc = "byid"
  /\ collector' = IF DOMAIN partial[collector.task_id] = {}
                    THEN Idle
                    ELSE [collector EXCEPT !.pc = "get"]
  /\ UNCHANGED <<status, evals, batchStatus, batchProgress, mainQueue,
                 taskQueue, dimQueue, resultsQueue, partial, activeTasks,
                 runningTasks, dispatching, sweeper, missed, enq, uuid,
                 faults, control, isRunning, mainLoop, expiry, worker, loops>>

CollectGetUnchecked ==
  /\ collector.pc = "get"
  /\ LET dimensionResults == partial[collector.task_id]
     IN collector' =
          IF collector.info = <<>> THEN Idle
          ELSE [collector EXCEPT
                  !.pc = "insert",
                  !.doc = <<[response_id |-> collector.info[1].response_id,
                             task_id |-> collector.task_id,
                             scores |-> Scores(dimensionResults),
                             final_score |-> FinalScore(dimensionResults),
                             processing_errors |-> AllErrors(dimensionResults)]>>]
  /\ UNCHANGED <<status, evals, batchStatus, batchProgress, mainQueue,
                 taskQueue, dimQueue, resultsQueue, partial, activeTasks,
                 runningTasks, dispatching, sweeper, missed, enq, uuid,
                 faults, control, isRunning, mainLoop, expiry, worker, loops>>

\* finalizeTaskWithInfo up to insertEvaluation: the hash is read and the
\* evaluation built.  Without task info the response id is looked for in the
\* results' details, which the workers do not put there.
CollectGet ==
  /\ collector.pc = "get"
  /\ LET dimensionResults == partial[collector.task_id]
     IN collector' =
          IF Count(DOMAIN dimensionResults) < Len(DIMENSIONS) THEN Idle
          ELSE IF collector.info = <<>> THEN Idle
          ELSE [collector EXCEPT
                  !.pc = "insert",
                  !.doc = <<[response_id |-> collector.info[1].response_id,
                             task_id |-> collector.task_id,
                             scores |-> Scores(dimensionResults),
                             final_score |-> FinalScore(dimensionResults),
                             processing_errors |-> AllErrors(dimensionResults)]>>]
  /\ UNCHANGED <<status, evals, batchStatus, batchProgress, mainQueue,
                 taskQueue, dimQueue, resultsQueue, partial, activeTasks,
                 runningTasks, dispatching, sweeper, missed, enq, uuid,
                 faults, control, isRunning, mainLoop, expiry, worker, loops>>

\* insertEvaluation.  A rejected insert lands in the catch block: the record
\* of a task with info is marked failed and the task forgotten.
CollectInsert ==
  /\ collector.pc = "insert"
  /\ IF InsertSucceeds(evals, collector.doc[1])
       THEN /\ evals' = insertEvaluation(evals, collector.doc[1])
            /\ collector' = [collector EXCEPT !.pc = "mark"]
            /\ UNCHANGED <<status, activeTasks>>
       ELSE /\ status' = updateResponseStatus(status,
                            collector.info[1].response_id, "failed")
            /\ activeTasks' = ActiveDelete(activeTasks, collector.task_id)
            /\ collector' = [collector EXCEPT !.pc = "del"]
            /\ UNCHANGED evals
  /\ UNCHANGED <<batchStatus, batchProgress, mainQueue, taskQueue, dimQueue,
                 resultsQueue, partial, runningTasks, dispatching, sweeper,
                 missed, enq, uuid, faults, control, isRunning, mainLoop,
                 expiry, worker, loops>>

\* updateResponseStatus(responseId, 'completed').
CollectMark ==
  /\ collector.pc = "mark"
  /\ status' = updateResponseStatus(status, collector.doc[1].response_id,
                                    "completed")
  /\ collector' = [collector EXCEPT !.pc = "progress"]
  /\ UNCHANGED <<evals, batchStatus, batchProgress, mainQueue, taskQueue,
                 dimQueue, resultsQueue, partial, activeTasks, runningTasks,
                 dispatching, sweeper, missed, enq, uuid, faults, control,
                 isRunning, mainLoop, expiry, worker, loops>>

\* updateBatchProgress, then activeTasks.delete.
CollectProgress ==
  /\ collector.pc = "progress"
  /\ LET progress == getBatchProgress(status)
     IN /\ batchStatus' =
             IF progress["pending"] = 0 /\ progress["processing"] = 0
               THEN "completed" ELSE "processing"
        /\ batchProgress' = progress
  /\ activeTasks' = ActiveDelete(activeTasks, collector.task_id)
  /\ collector' = [collector EXCEPT !.pc = "del"]
  /\ UNCHANGED <<status, evals, mainQueue, taskQueue, dimQueue, resultsQueue,
                 partial, runningTasks, dispatching, sweeper, missed, enq,
                 uuid, faults, control, isRunning, mainLoop, expiry, worker,
                 loops>>

\* deletePartialResults, the last step of both branches.
CollectDel ==
  /\ collector.pc = "del"
  /\ partial' = deletePartialResults(partial, collector.task_id)
  /\ expiry' = expiry \ {collector.task_id}
  /\ collector' = Idle
  /\ UNCHANGED <<status, evals, batchStatus, batchProgress, mainQueue,
                 taskQueue, dimQueue, resultsQueue, activeTasks, runningTasks,
                 dispatching, sweeper, missed, enq, uuid, faults, control,
                 isRunning, mainLoop, worker, loops>>

\* ------------------------------ masterOrchestrator.js: timeout sweeper
\* Ages stop counting here; an entry is swept before it gets there.
AgeCap == TaskTimeout + SweepInterval + 1

ExpiredLate(e) == e.age > TaskTimeout + SweepInterval

\* now - taskInfo.startTime > this.taskTimeout
Expired(e) == e.age > TaskTimeout

\* The records of the entries that are exactly TaskTimeout old and have fewer
\* than five partial results.
AtDeadline(a, p) ==
  {a[i].mainTask.response_id :
     i \in {j \in 1..Len(a) :
              /\ a[j].age = TaskTimeout
              /\ Count(DOMAIN p[a[j].taskId]) < Len(DIMENSIONS)}}

\* The interval fires: one sweep interval has passed, and the first loop of
\* checkTaskTimeouts collects the timed-out entries.
Tick ==
  /\ isRunning
  /\ sweeper.pc = "idle"
  /\ activeTasks # <<>> \/ missed # {}
  /\ LET aged == [i \in 1..Len(activeTasks) |->
                    [activeTasks[i] EXCEPT
                       !.age = IF @ < AgeCap THEN @ + SweepInterval ELSE @]]
         timeoutTasks == SelectSeq(aged, Expired)
     IN /\ activeTasks' = aged
        /\ missed' = AtDeadline(aged, partial)
        /\ sweeper' = [pc |-> IF timeoutTasks = <<>> THEN "idle" ELSE "mark",
                       list |-> timeoutTasks]
  /\ UNCHANGED <<status, evals, batchStatus, batchProgress, mainQueue,
                 taskQueue, dimQueue, resultsQueue, partial, runningTasks,
                 dispatching, collector, enq, uuid, faults, control,
                 isRunning, mainLoop, expiry, worker, loops>>

\* The second loop of checkTaskTimeouts, for one timed-out task: the record
\* is marked failed.
SweepMark ==
  /\ sweeper.pc = "mark"
  /\ status' = updateResponseStatus(status,
                  Head(sweeper.list).mainTask.response_id, "failed")
  /\ sweeper' = [sweeper EXCEPT !.pc = "clean"]
  /\ UNCHANGED <<evals, batchStatus, batchProgress, mainQueue, taskQueue,
                 dimQueue, resultsQueue, partial, activeTasks, runningTasks,
                 dispatching, collector, missed, enq, uuid, faults, control,
                 isRunning, mainLoop, expiry, worker, loops>>

SweepCleanRequeues ==
  /\ sweeper.pc = "clean"
  /\ mainQueue' = addMainTask(mainQueue, Head(sweeper.list).mainTask)
  /\ activeTasks' = ActiveDelete(activeTasks, Head(sweeper.list).taskId)
  /\ partial' = deletePartialResults(partial, Head(sweeper.list).taskId)
  /\ expiry' = expiry \ {Head(sweeper.list).taskId}
  /\ sweeper' = [pc |-> IF Tail(sweeper.list) = <<>> THEN "idle" ELSE "mark",
                 list |-> Tail(sweeper.list)]
  /\ UNCHANGED <<status, evals, batchStatus, batchProgress, taskQueue,
                 dimQueue, resultsQueue, runningTasks, dispatching, collector,
                 missed, enq, uuid, faults, control, isRunning, mainLoop,
                 worker, loops>>

SweepCleanAll ==
  /\ sweeper.pc = "clean"
  /\ activeTasks' = <<>>
  /\ partial' = [t \in DOMAIN partial |-> EmptyHash]
  /\ expiry' = {}
  /\ sweeper' = [pc |-> IF Tail(sweeper.list) = <<>> THEN "idle" ELSE "mark",
                 list |-> Tail(sweeper.list)]
  /\ UNCHANGED <<status, evals, batchStatus, batchProgress, mainQueue,
                 taskQueue, dimQueue, resultsQueue, runningTasks, dispatching,
                 collector, missed, enq, uuid, faults, control, isRunning,
                 mainLoop, worker, loops>>

\* ... then the task is forgotten and its hash deleted.
SweepClean ==
  /\ sweeper.pc = "clean"
  /\ activeTasks' = ActiveDelete(activeTasks, Head(sweeper.list).taskId)
  /\ partial' = deletePartialResults(partial, Head(sweeper.list).taskId)
  /\ expiry' = expiry \ {Head(sweeper.list).taskId}
  /\ sweeper' = [pc |-> IF Tail(sweeper.list) = <<>> THEN "idle" ELSE "mark",
                 list |-> Tail(sweeper.list)]
  /\ UNCHANGED <<status, evals, batchStatus, batchProgress, mainQueue,
                 taskQueue, dimQueue, resultsQueue, runningTasks, dispatching,
                 collector, missed, enq, uuid, faults, control, isRunning,
                 mainLoop, worker, loops>>

\* ------------------------------------------------------- specifications
\* The system without injected errors.
Next ==
  \/ EnqueuePush
  \/ EnqueueMark
  \/ EnqueueFinish
  \/ RetryFailedTasks
  \/ MainPop
  \/ \E d \in dispatching : DispatchMark(d)
  \/ \E d \in dispatching : DispatchFanOut(d)
  \/ \E dim \in DimSet : WorkerStep(dim)
  \/ CollectPop
  \/ CollectById
  \/ CollectGet
  \/ CollectInsert
  \/ CollectMark
  \/ CollectProgress
  \/ CollectDel
  \/ Tick
  \/ SweepMark
  \/ SweepClean

Spec == Init /\ [][Next]_vars

\* A single-record upload with up to MaxFaults failed dispatches.
NextFault ==
  \/ Next
  \/ \E d \in dispatching : DispatchMarkFails(d)
  \/ \E d \in dispatching : DispatchFanOutFails(d)
  \/ \E d \in dispatching : DispatchCatch(d)

SpecFault == InitSingle /\ [][NextFault]_vars

\* A single-record upload in which the dispatch can fail only before the
\* fan-out (setWorkerStatus or the update to processing throws).
NextMarkFault ==
  \/ Next
  \/ \E d \in dispatching : DispatchMarkFails(d)
  \/ \E d \in dispatching : DispatchCatch(d)

SpecMarkFault == InitSingle /\ [][NextMarkFault]_vars

\* A single-record upload in which the dispatch can fail only in the fan-out
\* (an addDimensionTask throws).
NextFanFault ==
  \/ Next
  \/ \E d \in dispatching : DispatchFanOutFails(d)
  \/ \E d \in dispatching : DispatchCatch(d)

SpecFanFault == InitSingle /\ [][NextFanFault]_vars

\* A single-record upload with a failed dispatch whose failure handling can
\* fail in turn.
NextCrash ==
  \/ NextFault
  \/ \E d \in dispatching : HandleFailureRequeueFails(d)
  \/ \E d \in dispatching : HandleFailureMark(d)
  \/ \E d \in dispatching : HandleFailureMarkFails(d)

SpecCrash == InitSingle /\ [][NextCrash]_vars

\* The collector and finaliser fed with arbitrary results: the state after
\* the dispatch of a single-record batch, its five subtasks outstanding.
InitAgg ==
  LET mainTask == [task_id |-> 1, response_id |-> 1, retry_count |-> 0]
  IN /\ status = [r \in 1..1 |-> "processing"]
     /\ evals = <<>>
     /\ batchStatus = "processing"
     /\ batchProgress =
          [k \in {"total", "queued", "processing", "completed", "failed"} |->
             IF k \in {"total", "queued"} THEN 1 ELSE 0]
     /\ mainQueue = <<>>
     /\ taskQueue = <<>>
     /\ dimQueue = [d \in DimSet |-> <<1>>]
     /\ resultsQueue = <<>>
     /\ partial = [t \in TaskIds |-> EmptyHash]
     /\ activeTasks = ActiveSet(<<>>, 1, mainTask)
     /\ runningTasks = 0
     /\ dispatching = {}
     /\ collector = Idle
     /\ sweeper = SweeperIdle
     /\ missed = {}
     /\ enq = [pc |-> "done", i |-> 1]
     /\ uuid = 1
     /\ faults = 0
     /\ control = "idle"
     /\ isRunning = TRUE
     /\ mainLoop = "top"
     /\ expiry = {}
     /\ worker = WorkerStarted
     /\ loops = LoopsStarted

NextAgg ==
  \/ \E dim \in DimSet : ResultArrives(dim)
  \/ CollectPop
  \/ CollectGet
  \/ CollectInsert
  \/ CollectMark
  \/ CollectProgress
  \/ CollectDel

SpecAgg == InitAgg /\ [][NextAgg]_vars

\* The collector under repeated delivery: every result of the dispatched
\* task is delivered once by its worker and up to MaxDuplicates times more.
NextDup ==
  \/ \E dim \in DimSet : WorkerStep(dim)
  \/ \E dim \in DimSet : ResultRedelivered(dim)
  \/ CollectPop
  \/ CollectById
  \/ CollectGet
  \/ CollectInsert
  \/ CollectMark
  \/ CollectProgress
  \/ CollectDel

SpecDup == InitAgg /\ [][NextDup]_vars

\* The collector fed by the five workers and by a producer that names an
\* unknown dimension.
NextUnknown ==
  \/ \E dim \in DimSet : WorkerStep(dim)
  \/ ResultUnknownDimension
  \/ CollectPop
  \/ CollectGet
  \/ CollectInsert
  \/ CollectMark
  \/ CollectProgress
  \/ CollectDel

SpecUnknown == InitAgg /\ [][NextUnknown]_vars

\* The collector at the grain of the store commands, one of which may throw.
NextTTL ==
  \/ \E dim \in DimSet : WorkerStep(dim)
  \/ CollectHSet
  \/ CollectExpire
  \/ CollectExpireFails
  \/ CollectGet
  \/ CollectInsert
  \/ CollectMark
  \/ CollectProgress
  \/ CollectDel

SpecTTL == InitAgg /\ [][NextTTL]_vars

\* The state enqueueBatch leaves when it returns before the dispatch loop has
\* taken a task: every record queued, one task per record on the main queue.
InitEnqueued ==
  \E n \in 1..NumRecords :
    /\ status = [r \in 1..n |-> "queued"]
    /\ evals = <<>>
    /\ batchStatus = "processing"
    /\ batchProgress =
         [k \in {"total", "queued", "processing", "completed", "failed"} |->
            IF k \in {"total", "queued"} THEN n ELSE 0]
    /\ mainQueue = [i \in 1..n |->
                      [task_id |-> i, response_id |-> i, retry_count |-> 0]]
    /\ taskQueue = <<>>
    /\ dimQueue = [d \in DimSet |-> <<>>]
    /\ resultsQueue = <<>>
    /\ partial = [t \in TaskIds |-> EmptyHash]
    /\ activeTasks = <<>>
    /\ runningTasks = 0
    /\ dispatching = {}
    /\ collector = Idle
    /\ sweeper = SweeperIdle
    /\ missed = {}
    /\ enq = [pc |-> "done", i |-> n]
    /\ uuid = n
    /\ faults = 0
    /\ control = "idle"
    /\ isRunning = TRUE
    /\ mainLoop = "top"
    /\ expiry = {}
    /\ worker = WorkerStarted
    /\ loops = LoopsStarted

\* The dispatch loop, the workers and the collector draining the batch while
\* every worker answers with a valid score before any task reaches its
\* deadline (the sweeper finds nothing to sweep).
NextDrain ==
  \/ MainPop
  \/ \E d \in dispatching : DispatchMark(d)
  \/ \E d \in dispatching : DispatchFanOut(d)
  \/ \E dim \in DimSet : WorkerStep(dim)
  \/ CollectPop
  \/ CollectGet
  \/ CollectInsert
  \/ CollectMark
  \/ CollectProgress
  \/ CollectDel

\* The three loops run for as long as the orchestrator and the workers are
\* up (while (this.isRunning)): a step that stays enabled is taken.
SpecDrain == InitEnqueued /\ [][NextDrain]_vars /\ WF_vars(NextDrain)

\* The batch enqueued and drained while the operator pauses, resumes and
\* cancels it.
NextControl ==
  \/ EnqueuePush
  \/ EnqueueMark
  \/ EnqueueFinish
  \/ NextDrain
  \/ PauseCheck
  \/ PauseWrite
  \/ ResumeCheck
  \/ ResumeWrite
  \/ CancelBatch
  \/ CancelRecords

SpecControl == Init /\ [][NextControl]_vars

\* enqueueBatch with up to MaxFaults store or broker errors, while the
\* orchestrator drains what was queued.
NextEnqueueFault ==
  \/ EnqueuePush
  \/ EnqueueMark
  \/ EnqueueFinish
  \/ EnqueuePushFails
  \/ EnqueueMarkFails
  \/ EnqueueFinishFails
  \/ EnqueueCatch
  \/ NextDrain

SpecEnqueueFault == Init /\ [][NextEnqueueFault]_vars

\* The dispatch loop with its polling pop, and a shutdown at any moment.
NextStop ==
  \/ EnqueuePush
  \/ EnqueueMark
  \/ EnqueueFinish
  \/ PollStart
  \/ PollPop
  \/ PollEmpty
  \/ Stop
  \/ \E d \in dispatching : DispatchMark(d)
  \/ \E d \in dispatching : DispatchFanOut(d)

SpecStop == Init /\ [][NextStop]_vars

\* The enqueue facade alone: the upload is enqueued and requeueFailedResponse
\* is called at will.
NextRequeue ==
  \/ EnqueuePush
  \/ EnqueueMark
  \/ EnqueueFinish
  \/ RequeueFailed

SpecRequeue == Init /\ [][NextRequeue]_vars

\* One dimension worker followed call by call while the orchestrator
\* dispatches the tasks of an enqueued batch.
NextWorker ==
  \/ MainPop
  \/ \E d \in dispatching : DispatchMark(d)
  \/ \E d \in dispatching : DispatchFanOut(d)
  \/ WorkerLoopPoll
  \/ WorkerLoopExit
  \/ WorkerLoopPop
  \/ WorkerLoopEmpty
  \/ \E p \in worker.processing : ProcessTaskRun(p)
  \/ \E p \in worker.processing : ProcessTaskPush(p)
  \/ WorkerStop
  \/ WorkerStopResolve

SpecWorker == InitEnqueued /\ [][NextWorker]_vars

\* start() and stop() called at will, and the loop activations they leave.
NextRestart ==
  \/ Start
  \/ Stop
  \/ \E k \in {"dispatch", "collect"} : LoopPollReturns(k)
  \/ \E k \in {"dispatch", "collect"} : LoopTest(k)
  \/ \E k \in {"dispatch", "collect"} : LoopPollTest(k)

SpecRestart == Init /\ [][NextRestart]_vars

\* The dispatch loop with its polling pop and dispatches that can fail, and a
\* shutdown at any moment.  An await of processMainTask returns or throws:
\* a dispatch that has been started is carried on to its finally block.
NextStopWait ==
  \/ EnqueuePush
  \/ EnqueueMark
  \/ EnqueueFinish
  \/ PollStart
  \/ PollPop
  \/ PollEmpty
  \/ Stop
  \/ \E d \in dispatching : DispatchMark(d)
  \/ \E d \in dispatching : DispatchFanOut(d)
  \/ \E d \in dispatching : DispatchMarkFails(d)
  \/ \E d \in dispatching : DispatchFanOutFails(d)
  \/ \E d \in dispatching : DispatchCatch(d)

DispatchStep ==
  \E d \in dispatching :
    DispatchMark(d) \/ DispatchFanOut(d) \/ DispatchCatch(d)

SpecStopWait == Init /\ [][NextStopWait]_vars /\ WF_vars(DispatchStep)

\* ---------------------------------------------------------------- claims
EvaluationsOf(ev, r) == {i \in 1..Len(ev) : ev[i].response_id = r}

\* C1: across enqueueing, dispatch, duplicated and late results, sweeps and
\* requeues, the evaluations collection holds at most one Evaluation per
\* record, and a step only ever appends to it: an Evaluation once written is
\* neither modified nor replaced.
C1_OneEvaluationNeverModified ==
  [][/\ Len(evals') >= Len(evals)
     /\ SubSeq(evals', 1, Len(evals)) = evals
     /\ \A r \in DOMAIN status : Count(EvaluationsOf(evals', r)) <= 1]_vars

\* C1 witness: a second finalisation of a record that already has its
\* Evaluation has reached insertEvaluation.
C1_DuplicateReachesInsert ==
  /\ collector.pc = "insert"
  /\ HasEvaluation(evals, collector.doc[1].response_id)

\* C2: a record whose status is completed has exactly one Evaluation.
C2_CompletedHasOneEvaluation ==
  \A r \in DOMAIN status :
    status[r] = "completed" => Count(EvaluationsOf(evals, r)) = 1

\* C2 witness: a record is completed and has its Evaluation.
C2_SomeRecordCompleted ==
  \E r \in DOMAIN status :
    status[r] = "completed" /\ Count(EvaluationsOf(evals, r)) = 1

\* C3: every Evaluation written has a final score within [0,1], whatever the
\* five results popped from the results list carried (the score n / (10 * d)
\* lies in [0,1] iff 0 <= n <= 10 * d).
C3_FinalScoreInUnitInterval ==
  \A i \in 1..Len(evals) :
    /\ 0 <= evals[i].final_score[1]
    /\ evals[i].final_score[1] <= 10 * evals[i].final_score[2]

\* C4 (as amended): at every observation point the progress getBatchProgress
\* returns has total = pending + queued + processing + completed + failed +
\* cancelled, the number of records of the batch (a counter the document
\* lacks counts as 0).
C4_TotalCountsEveryStatus ==
  LET progress == getBatchProgress(status)
  IN /\ progress["total"] =
          Field(progress, "pending") + Field(progress, "queued") +
          Field(progress, "processing") + Field(progress, "completed") +
          Field(progress, "failed") + Field(progress, "cancelled")
     /\ progress["total"] = Count(DOMAIN status)

\* C4 witness: an observation point at which one record is still queued and
\* another is already being processed.
C4_QueuedWhileProcessing ==
  \E r1, r2 \in DOMAIN status :
    status[r1] = "queued" /\ status[r2] = "processing"

\* C4 (as stated): at every observation point the progress getBatchProgress
\* returns has total = pending + processing + completed + failed + cancelled.
C4_TotalIsSumOfCounters ==
  LET progress == getBatchProgress(status)
  IN progress["total"] =
       Field(progress, "pending") + Field(progress, "processing") +
       Field(progress, "completed") + Field(progress, "failed") +
       Field(progress, "cancelled")

\* C5: at every instant at most MaxConcurrentTasks records are in status
\* processing.
C5_AtMostCapProcessing ==
  Count({r \in DOMAIN status : status[r] = "processing"}) <= MaxConcurrentTasks

C7_SweptRecordHasNoEvaluation ==
  [][(sweeper.pc = "mark" /\ sweeper'.pc = "clean") =>
       ~HasEvaluation(evals', Head(sweeper.list).mainTask.response_id)]_vars

C9_AtMostMaxRetriesRequeues ==
  \A r \in DOMAIN status :
    Count({i \in 1..Len(taskQueue) : taskQueue[i].response_id = r})
      <= MAX_RETRIES

\* C10: a requeueFailedResponse call that succeeds (the failed record becomes
\* queued) appends exactly one task to the main queue.
C10_RequeueAppendsToMainQueue ==
  [][(\E r \in DOMAIN status : status[r] = "failed" /\ status'[r] = "queued")
       => Len(mainQueue') = Len(mainQueue) + 1]_vars


\* C11: every task appended to the main queue carries a task id that was
\* handed out for this append, so that no two appended tasks (first attempts,
\* retries and requeues alike) share a task id and a partial-results hash.
C11_AppendedTaskIdIsFresh ==
  [][Len(mainQueue') > Len(mainQueue) =>
       /\ uuid' = uuid + 1
       /\ mainQueue'[Len(mainQueue')].task_id = uuid']_vars

\* The final score of five results of 0.8 delivered once each.
OnceScore == FinalScore([d \in DimSet |-> [score |-> 8, error |-> FALSE]])

\* Nothing is left to deliver or to collect.
Drained ==
  /\ \A dim \in DimSet : dimQueue[dim] = <<>>
  /\ resultsQueue = <<>>
  /\ collector = Idle

\* C12: when every result is delivered once or more, in any order, before,
\* during or after finalisation, the outcome is that of a single delivery: at
\* most one Evaluation, with the final score of the single delivery; once
\* everything is drained the record is completed with its Evaluation; a
\* completed record stays completed; and a finalise attempt after the first
\* never reaches the insert and writes nothing to the store or the in-flight
\* table.
C12_DuplicateDeliveryIdempotent ==
  /\ [](/\ Len(evals) <= 1
        /\ \A i \in 1..Len(evals) : evals[i].final_score = OnceScore
        /\ collector.pc = "insert" => evals = <<>>
        /\ Drained => status[1] = "completed" /\ Len(evals) = 1)
  /\ [][/\ status[1] = "completed" => status'[1] = "completed"
        /\ (evals # <<>> /\ collector.pc \in {"idle", "byid", "get"}) =>
             UNCHANGED <<evals, status, batchStatus, batchProgress,
                         activeTasks>>]_vars

\* C12 witness: after the finalisation a complete second set of results has
\* been delivered and collected, and the finaliser has been entered again.
C12_SecondSetCollected ==
  /\ Len(evals) = 1
  /\ status[1] = "completed"
  /\ faults >= Len(DIMENSIONS)
  /\ Count(DOMAIN partial[1]) = Len(DIMENSIONS)
  /\ collector = Idle

\* C13: a step of the finaliser (with task info or by id) for a task whose
\* partial-results hash has been deleted returns at once: no Evaluation is
\* written, no record status, batch status or batch counter changes, and the
\* in-flight table is left as it is.
C13_FinaliseWithoutHashChangesNothing ==
  [][(/\ collector.pc \in {"byid", "get"}
      /\ DOMAIN partial[collector.task_id] = {}
      /\ collector' # collector) =>
       /\ collector' = Idle
       /\ UNCHANGED <<evals, status, batchStatus, batchProgress, activeTasks,
                      partial, mainQueue>>]_vars

\* C13 witness: the finaliser has been entered with the task info and the
\* sweeper has deleted the hash before the finaliser reads it.
C13_FinaliserEnteredHashDeleted ==
  /\ collector.pc = "get"
  /\ collector.info # <<>>
  /\ DOMAIN partial[collector.task_id] = {}

Settled ==
  /\ enq.pc = "done"
  /\ mainQueue = <<>>
  /\ dispatching = {}
  /\ activeTasks = <<>>
  /\ sweeper = SweeperIdle
  /\ Drained

\* C15: once enqueueBatch has returned and every record has been finalised
\* as completed, with nothing left in flight, the batch is completed with the
\* counters total = N, completed = N and every other counter 0, whatever the
\* order in which enqueueBatch's writes and the orchestrator's landed.
C15_SettledBatchCompleted ==
  (Settled /\ \A r \in DOMAIN status : status[r] = "completed") =>
    /\ batchStatus = "completed"
    /\ Field(batchProgress, "total") = Count(DOMAIN status)
    /\ Field(batchProgress, "completed") = Count(DOMAIN status)
    /\ \A k \in DOMAIN batchProgress \ {"total", "completed"} :
         batchProgress[k] = 0

\* The dimensions of an Evaluation that count as successful: no error and a
\* score within [0,1] (scores are in tenths).
Successful(doc) ==
  {dim \in DimSet : /\ dim \notin doc.processing_errors
                    /\ doc.scores[dim] \in 0..10}

RECURSIVE WeightedSum(_, _, _)
WeightedSum(doc, S, which) ==
  IF S = {} THEN 0
  ELSE LET dim == CHOOSE x \in S : TRUE
       IN WeightedSum(doc, S \ {dim}, which) +
          (IF which = "score" THEN DEFAULT_WEIGHTS[dim] * doc.scores[dim]
           ELSE DEFAULT_WEIGHTS[dim])

\* C16: the final score of an Evaluation is the weighted mean of the scores
\* of its successful dimensions, sum(W * score) / sum(W) over them (the
\* errored dimensions are left out of the denominator and listed in
\* processing_errors); with a single successful dimension it is that score.
\* Stated for the Evaluations whose scores all lie within [0,1], as the
\* workers produce them.
C16_FinalScoreOverSuccessfulDimensions ==
  \A i \in 1..Len(evals) :
    LET doc == evals[i]
        S == Successful(doc)
    IN (\A dim \in DimSet : doc.scores[dim] \in 0..10) =>
       /\ S # {} =>
            doc.final_score[1] * WeightedSum(doc, S, "weight") =
              WeightedSum(doc, S, "score") * doc.final_score[2]
       /\ \A dim \in DimSet :
            S = {dim} =>
              doc.final_score[1] = doc.scores[dim] * doc.final_score[2]

\* C17: a record whose five results all carry an error is not marked
\* completed by the finaliser: its Evaluation has final score 0 and five
\* processing errors and the record becomes failed.
C17_AllErroredRecordFails ==
  [][(collector.pc = "mark" /\ collector' # collector /\
      Count(collector.doc[1].processing_errors) = Len(DIMENSIONS)) =>
       /\ collector.doc[1].final_score[1] = 0
       /\ status'[collector.doc[1].response_id] = "failed"]_vars

\* C18: a result whose score lies outside [0,1] is treated as errored: the
\* Evaluation holds 0 for that dimension and lists it in processing_errors,
\* so every score of an Evaluation lies within [0,1], and a dimension whose
\* stored result held a score outside [0,1] is among the errors.
C18_OutOfRangeScoreIsError ==
  /\ \A i \in 1..Len(evals) : \A dim \in DimSet :
       evals[i].scores[dim] \in 0..10
  /\ collector.pc = "insert" =>
       \A dim \in DOMAIN partial[collector.task_id] :
         partial[collector.task_id][dim].score \notin 0..10 =>
           /\ collector.doc[1].scores[dim] = 0
           /\ dim \in collector.doc[1].processing_errors

\* C19: completed and failed are stable under the orchestrator: the status
\* of a record that is completed or failed is not changed by a dispatch, a
\* finalisation, a late result or a sweep.  (The steps of enqueueBatch and the
\* operator's retry, requeueFailedResponse, are not orchestrator steps.)
C19_TerminalStatusStable ==
  [][\A r \in DOMAIN status :
       (status[r] \in {"completed", "failed"} /\ status'[r] # status[r]) =>
         enq' # enq \/ taskQueue' # taskQueue]_vars

\* C20: the progress projection of the finaliser (updateBatchProgress) leaves
\* the status of a paused or cancelled batch as it is.
C20_ProgressKeepsPausedOrCancelled ==
  [][(/\ collector.pc = "progress"
      /\ collector' # collector
      /\ batchStatus \in {"paused", "cancelled"}) =>
       batchStatus' = batchStatus]_vars

\* enqueueBatch has returned and the dispatch loop, the collector and the
\* sweeper hold nothing of the batch any more.
Quiet ==
  /\ enq.pc = "done"
  /\ mainQueue = <<>>
  /\ dispatching = {}
  /\ activeTasks = <<>>
  /\ sweeper = SweeperIdle
  /\ resultsQueue = <<>>
  /\ collector = Idle

\* C21: the batch's status and progress follow the record statuses: once
\* every record of the batch is completed or failed and at least one was
\* failed by the sweeper, with nothing of the batch left in the orchestrator,
\* the batch is completed and its failed counter counts the failed records.
C21_BatchFollowsTimedOutRecords ==
  (/\ Quiet
   /\ \A r \in DOMAIN status : status[r] \in {"completed", "failed"}
   /\ \E r \in DOMAIN status : status[r] = "failed") =>
    /\ batchStatus = "completed"
    /\ Field(batchProgress, "failed") =
         Count({r \in DOMAIN status : status[r] = "failed"})

\* C22: when insertEvaluation is rejected because the record already has an
\* Evaluation, the finaliser takes the task as already finalised: the
\* Evaluation and the status of the record are left as they are.
C22_RejectedInsertLeavesRecord ==
  [][(/\ collector.pc = "insert"
      /\ collector' # collector
      /\ HasEvaluation(evals, collector.doc[1].response_id)) =>
       /\ evals' = evals
       /\ status' = status]_vars

C24_FailedEnqueueFailsUnqueued ==
  [][(enq.pc = "catch" /\ enq' # enq) =>
       /\ batchStatus' = "failed"
       /\ \A r \in DOMAIN status : status'[r] # "pending"]_vars

\* C25: a record that the cancel of its batch has set to cancelled is never
\* dispatched afterwards: it is not marked processing.
C25_CancelledRecordNotDispatched ==
  [][\A r \in DOMAIN status :
       status[r] = "cancelled" => status'[r] # "processing"]_vars

\* C26: once stop has cleared isRunning, no task leaves the main queue.
C26_NoPopAfterStop ==
  [][~isRunning => Len(mainQueue') >= Len(mainQueue)]_vars

\* C27: with nobody calling stop, no error of the broker or of the store
\* ends the loops of the orchestrator: isRunning stays set.
C27_ErrorsNeverStopLoops == isRunning

\* C28: subtasks are pushed only by the fan-out of a popped task, which
\* appends exactly one subtask carrying the task's id to each dimension's
\* list; and a dispatch arrives at its fan-out only through the step that
\* marks the record processing and registers the task, with its start time,
\* in the in-flight table.
C28_FanOutAfterMarkAndRegister ==
  [][/\ dimQueue' # dimQueue =>
          \/ \E d \in dispatching :
               /\ d.pc = "fan"
               /\ d \notin dispatching'
               /\ \A dim \in DimSet :
                    dimQueue'[dim] = Append(dimQueue[dim], d.task.task_id)
          \/ \E dim \in DimSet :
               /\ dimQueue[dim] # <<>>
               /\ dimQueue' = [dimQueue EXCEPT ![dim] = Tail(@)]
     /\ \A d \in dispatching' \ dispatching :
          d.pc = "fan" =>
            /\ [d EXCEPT !.pc = "mark"] \in dispatching
            /\ dimQueue' = dimQueue
            /\ status'[d.task.response_id] = "processing"
            /\ \E i \in 1..Len(activeTasks') :
                 /\ activeTasks'[i].taskId = d.task.task_id
                 /\ activeTasks'[i].mainTask = d.task
                 /\ activeTasks'[i].age = 0]_vars

\* C28 witness: the five subtasks of a dispatched task are on the five
\* dimension lists.
C28_FiveSubtasksPushed ==
  /\ dispatching = {}
  /\ \E t \in TaskIds : \A dim \in DimSet : dimQueue[dim] = <<t>>

\* C29: when the dispatch of a task fails before its fan-out, the failure
\* handling discards the task: the record is marked failed, the task is put
\* back on no queue, no in-flight entry remains and no subtask is pushed.
C29_FailedMarkDiscardsTask ==
  [][\A d \in dispatching :
       (d.pc = "catch" /\ d \notin dispatching') =>
         /\ status'[d.task.response_id] = "failed"
         /\ mainQueue' = mainQueue
         /\ taskQueue' = taskQueue
         /\ dimQueue' = dimQueue
         /\ d.task.task_id \notin ActiveIds(activeTasks')]_vars

\* C30: when a push of the fan-out fails, the failure handling leaves the
\* subtasks already pushed, keeps the task registered in the in-flight table
\* for the sweeper, and does not put the task back on the main queue.
C30_FailedFanOutLeftToSweeper ==
  [][\A d \in dispatching :
       (d.pc = "catch" /\ d \notin dispatching') =>
         /\ dimQueue' = dimQueue
         /\ mainQueue' = mainQueue
         /\ d.task.task_id \in ActiveIds(activeTasks) =>
              d.task.task_id \in ActiveIds(activeTasks')]_vars

\* C31: the finaliser writes an Evaluation for a task only when the
\* partial-result hash of that task id holds exactly the five configured
\* dimensions; five fields reached through an unknown dimension name do not
\* count as complete.
C31_EvaluationOnlyFromFiveDimensions ==
  [][evals' # evals => DOMAIN partial[collector.task_id] = DimSet]_vars

\* C32: a sweep touches exactly the in-flight entries older than TaskTimeout.
\* Its first loop lists every such entry and no other; for a listed entry the
\* record is marked failed, then the entry is removed and its partial-result
\* hash deleted; a step of the sweep changes no other record, removes no other
\* entry and changes no other hash.
SweepStep == sweeper' # sweeper

Listed == {sweeper.list[i] : i \in 1..Len(sweeper.list)}

C33_EveryHashHasTTL ==
  collector.pc = "idle" =>
    \A t \in DOMAIN partial : partial[t] # EmptyHash => t \in expiry

\* C34: a record follows queued -> processing -> {completed, failed}: once
\* the dispatch loop has marked it processing, no step sets it back to queued.
C34_ProcessingNeverBackToQueued ==
  [][\A r \in DOMAIN status :
       ~(status[r] = "processing" /\ status'[r] = "queued")]_vars

\* C35: whenever the batch is completed, every one of its records is
\* completed, failed or cancelled; in particular none is queued with its task
\* still waiting on the main queue once enqueueBatch has returned.
C35_CompletedBatchHasNoQueuedRecord ==
  batchStatus = "completed" /\ enq.pc = "done" =>
    \A r \in DOMAIN status :
      ~(/\ status[r] = "queued"
        /\ \E i \in 1..Len(mainQueue) : mainQueue[i].response_id = r)

\* C36: each requeue by the failure handler of a failed dispatch puts the
\* task back on the main queue with its retry_count raised by one, so that
\* MAX_RETRIES bounds the number of requeues.
C36_RequeueRaisesRetryCount ==
  [][\A d \in dispatching :
       (/\ d.pc = "catch"
        /\ d \notin dispatching'
        /\ Len(mainQueue') = Len(mainQueue) + 1)
       => mainQueue'[Len(mainQueue')].retry_count = d.task.retry_count + 1]_vars

\* C37: for every subtask the worker has popped and finished it has pushed
\* exactly one result with the subtask's task id and the worker's dimension,
\* it has pushed none for a subtask it did not pop, and a pushed result has
\* its score in [0,1] (tenths: 0..10) and score 0 when it carries an error.
ResultsFor(t) ==
  {i \in 1..Len(resultsQueue) :
     /\ resultsQueue[i].task_id = t
     /\ resultsQueue[i].dimension = WorkerDimension}

C37_OneValidResultPerSubtask ==
  /\ \A t \in TaskIds :
       /\ Cardinality(ResultsFor(t)) <= 1
       /\ t \in worker.finished => Cardinality(ResultsFor(t)) = 1
       /\ t \notin worker.popped => ResultsFor(t) = {}
  /\ \A i \in 1..Len(resultsQueue) :
       /\ resultsQueue[i].dimension = WorkerDimension
       /\ resultsQueue[i].score # <<>>
       /\ resultsQueue[i].score[1] >= 0
       /\ resultsQueue[i].score[1] <= 10
       /\ resultsQueue[i].error => resultsQueue[i].score = <<0>>

\* C37 witness: the worker has finished two subtasks, one with a score and
\* one with an error result.
C37_ScoredAndErrored ==
  /\ Cardinality(worker.finished) = 2
  /\ \E i, j \in 1..Len(resultsQueue) :
       ~resultsQueue[i].error /\ resultsQueue[j].error

\* C38: once stop() has resolved, the worker pops no further subtask.
C38_NoPopAfterWorkerStop ==
  [][worker.stop = "resolved" => worker'.popped = worker.popped]_vars

\* C39: whatever the sequence of start() and stop() calls, at most one
\* dispatch loop and at most one collector loop are alive at any time.
C39_AtMostOneLoopOfEachKind ==
  /\ Alive(loops, "dispatch") <= 1
  /\ Alive(loops, "collect") <= 1

\* C40: runningTasks stays between 0 and maxConcurrentTasks and equals the
\* number of dispatches in progress (one increment when a popped task starts
\* its dispatch, one decrement when the dispatch finishes or fails), and once
\* stop() has cleared the flag the counter comes to rest at 0, which is what
\* stop() waits for.
CounterInv ==
  /\ runningTasks >= 0
  /\ runningTasks <= MaxConcurrentTasks
  /\ runningTasks = Cardinality(dispatching)

C40_RunningTasksBoundedAndReleased ==
  /\ []CounterInv
  /\ (~isRunning) ~> [](runningTasks = 0)

\* C40 witness: stop() has been called while the counter is at its cap and
\* the dispatch in progress has failed and is in its catch block.
C40_StopWaitsForFailedDispatch ==
  /\ ~isRunning
  /\ runningTasks = MaxConcurrentTasks
  /\ \E d \in dispatching : d.pc = "catch"
====
